---- MODULE Spec2Model ----
(***************************************************************************)
(* Model of the Stripe webhook endpoint of Clubbix-Backend                 *)
(* (src/src/routes/stripe.js, router.post("/webhook"), mounted by the      *)
(* application of src/unnamed/part_000 under /api/stripe).                 *)
(*                                                                         *)
(* Node runs the handler of one request until its next await; the code     *)
(* between two awaits is one action here.  A handler is suspended at       *)
(*   "retrieve"   await stripe.subscriptions.retrieve(...)     (l. 260)    *)
(*   "clubWrite"  await clubs/<clubId>.set(..., {merge: true}) (l. 242)    *)
(*   "hookWrite"  await stripe_webhooks/<event.id>.set(...)    (l. 368)    *)
(* and several requests may be suspended at the same time.                 *)
(*                                                                         *)
(* stripe.webhooks.constructEvent, stripe.subscriptions.retrieve and the   *)
(* Firestore client are libraries outside the repository: whether they     *)
(* return or throw is an input of the action that resumes the handler.     *)
(***************************************************************************)
EXTENDS Integers, Sequences, FiniteSets, TLC

(* ------------------------------ bounds --------------------------------- *)
\* webhook requests received in one behaviour
MaxDeliveries == 2
\* current_period_start of the events of RoundTripSpec: 0 .. MaxPeriodStart
MaxPeriodStart == 4
\* length of a billing period there, in seconds (a month of 2 592 000 s
\* times 1000 lies beyond the integers of the model checker)
PeriodLength == 30

(* --------------------------- input domains ----------------------------- *)
\* concurrent invocations of the webhook handler
Procs == {"h1", "h2"}
\* provider event ids (Stripe: event.id, unique per event)
EventIds == {"evt_1", "evt_2"}
NoEvent == "none"
\* document ids of the clubs collection; NoClub: metadata.clubId is absent
ClubIds == {"club456", "club789"}
NoClub == ""
\* JS undefined (subscription?.id of an undefined subscription)
Undefined == "undefined"

RecognizedTypes ==
  { "checkout.session.completed", "checkout.session.expired",
    "customer.subscription.created", "customer.subscription.updated",
    "customer.subscription.deleted",
    "invoice.payment_succeeded", "invoice.payment_failed" }
SubscriptionTypes ==
  { "customer.subscription.created", "customer.subscription.updated",
    "customer.subscription.deleted" }
InvoiceTypes == { "invoice.payment_succeeded", "invoice.payment_failed" }
\* session.subscription / invoice.subscription ("" = null)
SubRefs == { "", "sub_1" }
\* subscription.status as the provider spells it
ProviderStatuses == { "active", "canceled" }
\* a created subscription is active, a deleted one canceled
StatusesOf(type) ==
  IF type = "customer.subscription.created" THEN { "active" }
  ELSE IF type = "customer.subscription.deleted" THEN { "canceled" }
  ELSE ProviderStatuses
\* the status values of the specified record
RecordStatuses == { "incomplete", "active", "past_due", "cancelled" }
\* error.message of a rejected clubs set(): the service is unavailable for
\* a moment, or refuses the write for good
FirestoreErrors == { "unavailable", "permission-denied" }
\* Content-Type of the request
ContentTypes == { "application/json", "text/plain" }

\* event.created (provider clock, epoch seconds) of each event id
Created(id) == IF id = "evt_1" THEN 100 ELSE 200

(* ------------------------------ Timestamp ------------------------------ *)
\* firebase-admin Timestamp.fromMillis(ms)
TimestampFromMillis(ms) ==
  [ seconds |-> ms \div 1000, nanoseconds |-> (ms % 1000) * 1000000 ]
NoTimestamp == [ seconds |-> -1, nanoseconds |-> 0 ]
TsLeq(a, b) ==
  \/ a.seconds < b.seconds
  \/ a.seconds = b.seconds /\ a.nanoseconds <= b.nanoseconds

\* JS a || b on strings
OrElse(a, b) == IF a # "" /\ a # Undefined THEN a ELSE b

(* ----------------------- provider objects ------------------------------ *)
\* A Stripe subscription object, as far as the handler reads it: id, status,
\* metadata.{clubId, plan, billingCycle}, items.data[0].price.{nickname,
\* recurring.interval}, current_period_start/end, cancel_at_period_end,
\* created.  0, "" and FALSE are the falsy values of JS.
SubscriptionObject(status, clubId) ==
  [ id |-> "sub_1", status |-> status, clubId |-> clubId,
    plan |-> "pro", billingCycle |-> "monthly",
    nickname |-> "Pro", interval |-> "month",
    current_period_start |-> 50, current_period_end |-> 80,
    cancel_at_period_end |-> FALSE, created |-> 40 ]
\* `let subscription;` never assigned (l. 258): every read through ?. is
\* undefined
NoSubscription ==
  [ id |-> Undefined, status |-> "", clubId |-> NoClub,
    plan |-> "", billingCycle |-> "",
    nickname |-> "", interval |-> "",
    current_period_start |-> 0, current_period_end |-> 0,
    cancel_at_period_end |-> FALSE, created |-> 0 ]
\* what stripe.subscriptions.retrieve can return for sub_1
RetrievedSubscriptions ==
  { SubscriptionObject(s, "club456") : s \in { "active", "incomplete" } }

\* event.data.object of the events the provider sends.  Fields a type does
\* not carry hold their falsy value.
Payload(type, clubId, mode, subscription, status) ==
  [ type |-> type, clubId |-> clubId, mode |-> mode,
    subscription |-> subscription, status |-> status,
    plan |-> IF clubId = NoClub THEN "" ELSE "pro",
    billingCycle |-> IF clubId = NoClub THEN "" ELSE "monthly",
    current_period_start |-> IF type \in SubscriptionTypes THEN 50 ELSE 0,
    current_period_end |-> IF type \in SubscriptionTypes THEN 80 ELSE 0 ]
NoPayload == Payload("none", NoClub, "", "", "")
\* The events of club456 (or of no club) are of every type and shape; a
\* second club, club789, has a checkout and a subscription update, to
\* observe what the events of one club do to the document of another.
MetadataClubs == { "club456", NoClub }
Payloads ==
  { Payload("checkout.session.completed", c, "subscription", s, "") :
      c \in MetadataClubs, s \in SubRefs }
  \cup { Payload("checkout.session.completed", c, "payment", "", "") :
      c \in MetadataClubs }
  \cup { Payload("checkout.session.expired", c, "subscription", "", "") :
      c \in MetadataClubs }
  \cup UNION { { Payload(t, c, "", "sub_1", st) :
                   c \in MetadataClubs, st \in StatusesOf(t) } :
               t \in SubscriptionTypes }
  \cup { Payload(t, NoClub, "", "sub_1", "") : t \in InvoiceTypes }
  \cup { Payload("charge.refunded", NoClub, "", "", "") } \* no case for it
  \cup { Payload("checkout.session.completed", "club789", "subscription",
                 "sub_1", ""),
         Payload("customer.subscription.updated", "club789", "", "sub_1",
                 "active") }
\* what a request that the provider did not sign may carry
ForgedPayloads ==
  { Payload("customer.subscription.updated", "club456", "", "sub_1",
            "active") }

(* ----------------------------- state ----------------------------------- *)
VARIABLES
  webhookSecret,  \* process.env.STRIPE_WEBHOOK_SECRET is set
  provider,       \* the events the provider has sent, by event id
  clubs,          \* Firestore collection "clubs", by document id
  stripe_webhooks,\* Firestore collection "stripe_webhooks", by event id
  now,            \* Date.now() (ms); requests arrive a millisecond apart
  h,              \* the invocations of the webhook handler
  deliveries,     \* requests received so far
  applied,        \* history: writes of clubs/<clubId> committed, per event id
  lastApplied,    \* history: per club, the event id of the last such write
  overlapped      \* history: two invocations have been in flight together

vars ==
  << webhookSecret, provider, clubs, stripe_webhooks, now, h, deliveries,
     applied, lastApplied, overlapped >>

NoData ==
  [ subscriptionId |-> "", clubId |-> NoClub, plan |-> "",
    billingCycle |-> "", status |-> "",
    currentPeriodStart |-> NoTimestamp, currentPeriodEnd |-> NoTimestamp,
    cancelAtPeriodEnd |-> FALSE, createdAt |-> NoTimestamp,
    updatedAt |-> NoTimestamp ]
\* a clubs document: `name` stands for every field the handler never writes
NoDoc ==
  [ exists |-> FALSE, name |-> "", subscription |-> NoData,
    updatedAt |-> NoTimestamp ]
NoHook == [ event_type |-> "none", received_at |-> 0, data |-> NoPayload ]

IdleHandler ==
  [ pc |-> "idle",
    signed |-> "",           \* the request: "valid" or "invalid" signature
    event |-> NoEvent,       \* event.id once constructEvent has returned
    body |-> "",             \* req.body as handed to constructEvent
    verified |-> FALSE,      \* constructEvent has returned
    firebaseData |-> NoHook, subscription |-> NoSubscription,
    data |-> NoData, docUpdatedAt |-> NoTimestamp,
    status |-> 0, error |-> "", \* res.status(...).json({error})
    message |-> "",          \* message: error.message of the 500 response
    responses |-> 0,         \* responses sent
    action |-> "",           \* action_required.type of the response body
    retrieves |-> 0,         \* calls of stripe.subscriptions.retrieve
    clubSets |-> 0,          \* calls of clubs/<clubId>.set()
    clubWrites |-> 0,        \* committed writes of clubs/<clubId>
    hookWrites |-> 0,        \* committed writes of stripe_webhooks/<id>
    retrieveFailed |-> FALSE,
    clubWriteFailed |-> FALSE, hookWriteFailed |-> FALSE ]

InFlight(p) == h[p].pc \in { "retrieve", "clubWrite", "hookWrite" }
\* event.data.object of the event a handler is processing
EventOf(p) == provider[h[p].event]

Init ==
  /\ webhookSecret \in BOOLEAN
  /\ provider = [ e \in EventIds |-> NoPayload ]
  /\ clubs = [ c \in ClubIds |->
       IF c = "club456"
       THEN [ exists |-> TRUE, name |-> "Club 456",
              subscription |-> NoData, updatedAt |-> NoTimestamp ]
       ELSE NoDoc ]
  /\ stripe_webhooks = [ e \in EventIds |-> NoHook ]
  /\ now = 300500
  /\ h = [ p \in Procs |-> IdleHandler ]
  /\ deliveries = 0
  /\ applied = [ e \in EventIds |-> 0 ]
  /\ lastApplied = [ c \in ClubIds |-> NoEvent ]
  /\ overlapped = FALSE

(* ------------------------- middleware chain ---------------------------- *)
\* What req.body is after app.use(express.json()) (part_000 l. 17): a JSON
\* request is read and parsed into an object (and marked parsed: req._body);
\* any other request keeps the empty object.
ExpressJson(ctype) ==
  IF ctype = "application/json" THEN "parsed" ELSE "empty"
\* express.raw({type: "application/json"}) on the route (stripe.js l. 207):
\* skips a request whose body is already parsed, else reads the bytes of
\* a JSON request into a Buffer.
ExpressRaw(ctype, body) ==
  IF body = "parsed" THEN "parsed"
  ELSE IF ctype = "application/json" THEN "raw" ELSE body
\* req.body as the webhook handler sees it
RequestBody(ctype) == ExpressRaw(ctype, ExpressJson(ctype))

(* ----------------------- record computation ---------------------------- *)
\* x ? Timestamp.fromMillis(x * 1000) : Timestamp.now()
SecondsOrNow(x, nowMs) ==
  IF x # 0 THEN TimestampFromMillis(x * 1000) ELSE TimestampFromMillis(nowMs)

\* mutant: a missing clubId falls back to a fixed club
ClubIdOf_Fallback(payload) ==
  IF payload.clubId = NoClub THEN "club456" ELSE payload.clubId
\* const clubId = metadata.clubId
ClubIdOf(payload) == payload.clubId

\* clubSubscriptionData of the checkout.session.completed case
CheckoutSubscriptionData(session, subscription, nowMs) ==
  [ subscriptionId |-> subscription.id,
    clubId |-> ClubIdOf(session),
    plan |-> OrElse(session.plan, OrElse(subscription.nickname, "")),
    billingCycle |->
      OrElse(session.billingCycle, OrElse(subscription.interval, "")),
    status |-> OrElse(subscription.status, "active"),
    currentPeriodStart |->
      SecondsOrNow(subscription.current_period_start, nowMs),
    currentPeriodEnd |->
      SecondsOrNow(subscription.current_period_end, nowMs),
    cancelAtPeriodEnd |-> subscription.cancel_at_period_end,
    createdAt |-> SecondsOrNow(subscription.created, nowMs),
    updatedAt |-> TimestampFromMillis(nowMs) ]

\* clubSubscriptionData of the customer.subscription.* case; `object` is
\* event.data.object, its metadata being the payload's
SubscriptionEventData(payload, object, nowMs) ==
  [ subscriptionId |-> object.id,
    clubId |-> ClubIdOf(payload),
    plan |-> OrElse(payload.plan, OrElse(object.nickname, "")),
    billingCycle |->
      OrElse(payload.billingCycle, OrElse(object.interval, "")),
    status |-> object.status,
    currentPeriodStart |-> SecondsOrNow(object.current_period_start, nowMs),
    currentPeriodEnd |-> SecondsOrNow(object.current_period_end, nowMs),
    cancelAtPeriodEnd |-> object.cancel_at_period_end,
    createdAt |-> SecondsOrNow(object.created, nowMs),
    updatedAt |-> TimestampFromMillis(nowMs) ]

\* event.data.object of a customer.subscription.* event
EventObject(payload) ==
  [ SubscriptionObject(payload.status, ClubIdOf(payload)) EXCEPT
      !.current_period_start = payload.current_period_start,
      !.current_period_end = payload.current_period_end ]

\* Firestore rejects a document holding undefined (the client is created
\* without ignoreUndefinedProperties, part_000 l. 62-103)
ValidFirestoreData(data) == data.subscriptionId # Undefined

\* mutant: set() without {merge: true} replaces the document
MergeSet_Replace(doc, data, updatedAt) ==
  [ exists |-> TRUE, name |-> "",
    subscription |-> data, updatedAt |-> updatedAt ]
\* DocumentReference.set({subscription, updatedAt}, {merge: true})
MergeSet(doc, data, updatedAt) ==
  [ exists |-> TRUE, name |-> doc.name,
    subscription |-> data, updatedAt |-> updatedAt ]

(* ----------------------- handler continuations ------------------------- *)
\* the invocation has sent its response: its locals are gone, what it did
\* (event, verified, body, the counters) is kept
Finished(hr, status, error) ==
  [ hr EXCEPT !.pc = "done", !.status = status, !.error = error,
              !.responses = @ + 1,
              !.firebaseData = NoHook, !.subscription = NoSubscription,
              !.data = NoData, !.docUpdatedAt = NoTimestamp ]
\* mutant: the catch block acknowledges the event
Respond500_Swallow(hr) == Finished(hr, 200, "")
\* mutant: the catch block logs the error and sends nothing
Respond500_NoResponse(hr) == [ hr EXCEPT !.pc = "failed" ]
\* catch (error): res.status(500)
Respond500(hr) == Finished(hr, 500, "Error processing webhook")
\* res.status(200).json({success, message}): the body has no action_required
ResponseAction(type) == ""
\* mutant: the response is sent before the event is saved
SaveEvent_RespondFirst(hr) == Finished(hr, 200, "")
\* after the switch: stripe_webhooks/<event.id>.set(firebaseData) is issued
SaveEvent(hr) == [ hr EXCEPT !.pc = "hookWrite" ]
\* mutant: every record goes to one document
updateClubSubscription_SharedDoc(hr, clubId, data, nowMs) ==
  IF clubId = NoClub THEN SaveEvent(hr)
  ELSE IF ~ValidFirestoreData(data)
    THEN Respond500([ hr EXCEPT !.clubWriteFailed = TRUE,
                                 !.clubSets = @ + 1 ])
  ELSE [ hr EXCEPT !.pc = "clubWrite",
                   !.data = [ data EXCEPT !.clubId = "club456" ],
                   !.clubSets = @ + 1,
                   !.docUpdatedAt = TimestampFromMillis(nowMs) ]
\* updateClubSubscription up to its await
updateClubSubscription(hr, clubId, data, nowMs) ==
  IF clubId = NoClub THEN SaveEvent(hr)
  ELSE IF ~ValidFirestoreData(data)
    THEN Respond500([ hr EXCEPT !.clubWriteFailed = TRUE,
                                 !.clubSets = @ + 1 ])
  ELSE [ hr EXCEPT !.pc = "clubWrite", !.data = data, !.clubSets = @ + 1,
                   !.docUpdatedAt = TimestampFromMillis(nowMs) ]

\* mutant: the invoice case throws on the metadata the invoice lacks
Dispatch_InvoiceThrows(hr, payload, nowMs) ==
  IF payload.type \in InvoiceTypes THEN Respond500(hr)
  ELSE IF payload.type \in SubscriptionTypes /\ ClubIdOf(payload) # NoClub
  THEN updateClubSubscription(hr, ClubIdOf(payload),
         SubscriptionEventData(payload, EventObject(payload), nowMs),
         nowMs)
  ELSE SaveEvent(hr)
\* mutant: a default case that throws on a type without a case
Dispatch_DefaultThrows(hr, payload, nowMs) ==
  IF payload.type \notin RecognizedTypes THEN Respond500(hr)
  ELSE IF payload.type \in SubscriptionTypes /\ ClubIdOf(payload) # NoClub
  THEN updateClubSubscription(hr, ClubIdOf(payload),
         SubscriptionEventData(payload, EventObject(payload), nowMs),
         nowMs)
  ELSE SaveEvent(hr)
\* mutant: a paid invoice re-activates the record of the subscription's club
Dispatch_InvoiceActivates(hr, payload, nowMs) ==
  IF payload.type = "invoice.payment_succeeded"
  THEN updateClubSubscription(hr, "club456",
         SubscriptionEventData([ payload EXCEPT !.clubId = "club456" ],
                               SubscriptionObject("active", "club456"),
                               nowMs),
         nowMs)
  ELSE IF payload.type \in SubscriptionTypes /\ ClubIdOf(payload) # NoClub
  THEN updateClubSubscription(hr, ClubIdOf(payload),
         SubscriptionEventData(payload, EventObject(payload), nowMs),
         nowMs)
  ELSE SaveEvent(hr)
\* mutant: the checkout case does not look at session.mode
Dispatch_AnyMode(hr, payload, nowMs) ==
  IF payload.type = "checkout.session.completed"
  THEN IF ClubIdOf(payload) # NoClub
       THEN IF payload.subscription # ""
            THEN [ hr EXCEPT !.pc = "retrieve", !.retrieves = @ + 1 ]
            ELSE updateClubSubscription(hr, ClubIdOf(payload),
                   CheckoutSubscriptionData(payload, NoSubscription, nowMs),
                   nowMs)
       ELSE SaveEvent(hr)
  ELSE IF payload.type \in SubscriptionTypes /\ ClubIdOf(payload) # NoClub
  THEN updateClubSubscription(hr, ClubIdOf(payload),
         SubscriptionEventData(payload, EventObject(payload), nowMs),
         nowMs)
  ELSE SaveEvent(hr)
\* switch (event.type), up to the first await
Dispatch(hr, payload, nowMs) ==
  IF payload.type = "checkout.session.completed"
  THEN IF payload.mode = "subscription" /\ ClubIdOf(payload) # NoClub
       THEN IF payload.subscription # ""
            THEN [ hr EXCEPT !.pc = "retrieve", !.retrieves = @ + 1 ]
            ELSE updateClubSubscription(hr, ClubIdOf(payload),
                   CheckoutSubscriptionData(payload, NoSubscription, nowMs),
                   nowMs)
       ELSE SaveEvent(hr)
  ELSE IF payload.type \in SubscriptionTypes
  THEN IF ClubIdOf(payload) # NoClub
       THEN updateClubSubscription(hr, ClubIdOf(payload),
              SubscriptionEventData(payload, EventObject(payload), nowMs),
              nowMs)
       ELSE SaveEvent(hr)
  ELSE SaveEvent(hr)

\* mutant: the catch of constructEvent lacks its return
HandleRequest_NoReject(secret, sigOk, ctype, id, payload, nowMs) ==
  IF ~secret
  THEN Finished(IdleHandler, 500, "Webhook secret not configured")
  ELSE Dispatch(
         [ IdleHandler EXCEPT !.event = id, !.verified = sigOk,
             !.body = RequestBody(ctype),
             !.firebaseData = [ event_type |-> payload.type,
                                received_at |-> nowMs, data |-> payload ] ],
         payload, nowMs)
\* mutant: the handler does not look at the secret before verifying
HandleRequest_NoSecretCheck(secret, sigOk, ctype, id, payload, nowMs) ==
  IF ~sigOk
  THEN Finished([ IdleHandler EXCEPT !.body = RequestBody(ctype) ], 400,
                "Webhook signature verification failed")
  ELSE Dispatch(
         [ IdleHandler EXCEPT !.event = id, !.verified = TRUE,
             !.body = RequestBody(ctype),
             !.firebaseData = [ event_type |-> payload.type,
                                received_at |-> nowMs, data |-> payload ] ],
         payload, nowMs)
\* the handler from the request to its first await or response
HandleRequest(secret, sigOk, ctype, id, payload, nowMs) ==
  IF ~secret
  THEN Finished(IdleHandler, 500, "Webhook secret not configured")
  ELSE IF ~sigOk
  THEN Finished([ IdleHandler EXCEPT !.body = RequestBody(ctype) ], 400,
                "Webhook signature verification failed")
  ELSE Dispatch(
         [ IdleHandler EXCEPT !.event = id, !.verified = TRUE,
             !.body = RequestBody(ctype),
             !.firebaseData = [ event_type |-> payload.type,
                                received_at |-> nowMs, data |-> payload ] ],
         payload, nowMs)

(* ------------------------------ actions -------------------------------- *)
\* a new request runs in the first free slot
FreeSlot(p) ==
  /\ h[p].pc \in { "idle", "done" }
  /\ p = "h2" => InFlight("h1")

\* POST /api/stripe/webhook arrives with a signature that does not verify
\* (constructEvent throws), whatever it carries
ReceiveUnsigned(p, ctype, id, payload) ==
  /\ FreeSlot(p)
  /\ deliveries < MaxDeliveries
  /\ deliveries' = deliveries + 1
  /\ now' = now + 1
  /\ h' = [ h EXCEPT ![p] =
              [ HandleRequest(webhookSecret, FALSE, ctype, id, payload,
                              now') EXCEPT !.signed = "invalid" ] ]
  /\ UNCHANGED << webhookSecret, provider, clubs, stripe_webhooks, applied,
                  lastApplied, overlapped >>

\* POST /api/stripe/webhook arrives with an event the provider signed: a
\* first delivery of event id, or a redelivery of the same event.  The
\* provider sends JSON.
Receive(p, id, payload) ==
  /\ FreeSlot(p)
  /\ deliveries < MaxDeliveries
  /\ provider[id] \in { NoPayload, payload }
  /\ provider' = [ provider EXCEPT ![id] = payload ]
  /\ deliveries' = deliveries + 1
  /\ now' = now + 1
  /\ h' = [ h EXCEPT ![p] =
              [ HandleRequest(webhookSecret, TRUE, "application/json", id,
                              payload, now') EXCEPT !.signed = "valid" ] ]
  /\ overlapped' =
       (overlapped \/ (InFlight(p)' /\ \E q \in Procs \ {p} : InFlight(q)))
  /\ UNCHANGED << webhookSecret, clubs, stripe_webhooks, applied,
                  lastApplied >>

\* stripe.subscriptions.retrieve returns
RetrieveOk(p, subscription) ==
  /\ h[p].pc = "retrieve"
  /\ LET payload == provider[h[p].event]
     IN h' = [ h EXCEPT ![p] =
                 updateClubSubscription(
                   [ h[p] EXCEPT !.subscription = subscription ],
                   ClubIdOf(payload),
                   CheckoutSubscriptionData(payload, subscription, now),
                   now) ]
  /\ UNCHANGED << webhookSecret, provider, clubs, stripe_webhooks, now,
                  deliveries, applied, lastApplied, overlapped >>

\* mutant: a failed lookup is caught and the event is saved without record
RetrieveFail_SavesEvent(p) ==
  /\ h[p].pc = "retrieve"
  /\ h' = [ h EXCEPT ![p] =
              SaveEvent([ h[p] EXCEPT !.retrieveFailed = TRUE ]) ]
  /\ UNCHANGED << webhookSecret, provider, clubs, stripe_webhooks, now,
                  deliveries, applied, lastApplied, overlapped >>
\* stripe.subscriptions.retrieve throws
RetrieveFail(p) ==
  /\ h[p].pc = "retrieve"
  /\ h' = [ h EXCEPT ![p] =
              Respond500([ h[p] EXCEPT !.retrieveFailed = TRUE ]) ]
  /\ UNCHANGED << webhookSecret, provider, clubs, stripe_webhooks, now,
                  deliveries, applied, lastApplied, overlapped >>

\* the write of clubs/<clubId> is committed and acknowledged
ClubWriteOk(p) ==
  /\ h[p].pc = "clubWrite"
  /\ LET c == h[p].data.clubId
     IN /\ clubs' = [ clubs EXCEPT ![c] =
                        MergeSet(@, h[p].data, h[p].docUpdatedAt) ]
        /\ lastApplied' = [ lastApplied EXCEPT ![c] = h[p].event ]
  /\ applied' = [ applied EXCEPT ![h[p].event] = @ + 1 ]
  /\ h' = [ h EXCEPT ![p] = SaveEvent([ h[p] EXCEPT !.clubWrites = @ + 1 ]) ]
  /\ UNCHANGED << webhookSecret, provider, stripe_webhooks, now, deliveries,
                  overlapped >>

\* mutant: a rejected write of clubs/<clubId> is logged and the handler
\* goes on to save the event
ClubWriteFail_Continues(p, message) ==
  /\ h[p].pc = "clubWrite"
  /\ h' = [ h EXCEPT ![p] =
              SaveEvent([ h[p] EXCEPT !.clubWriteFailed = TRUE,
                                      !.message = message ]) ]
  /\ UNCHANGED << webhookSecret, provider, clubs, stripe_webhooks, now,
                  deliveries, applied, lastApplied, overlapped >>
\* the write of clubs/<clubId> is rejected with error.message = message
ClubWriteFail(p, message) ==
  /\ h[p].pc = "clubWrite"
  /\ h' = [ h EXCEPT ![p] =
              Respond500([ h[p] EXCEPT !.clubWriteFailed = TRUE,
                                       !.message = message ]) ]
  /\ UNCHANGED << webhookSecret, provider, clubs, stripe_webhooks, now,
                  deliveries, applied, lastApplied, overlapped >>

\* the write of stripe_webhooks/<event.id> is committed: res.status(200)
HookWriteOk(p) ==
  /\ h[p].pc = "hookWrite"
  /\ stripe_webhooks' =
       [ stripe_webhooks EXCEPT ![h[p].event] = h[p].firebaseData ]
  /\ h' = [ h EXCEPT ![p] =
              Finished([ h[p] EXCEPT !.hookWrites = @ + 1,
                           !.action = ResponseAction(EventOf(p).type) ],
                       200, "") ]
  /\ UNCHANGED << webhookSecret, provider, clubs, now, deliveries, applied,
                  lastApplied, overlapped >>

\* the write of stripe_webhooks/<event.id> is rejected
HookWriteFail(p) ==
  /\ h[p].pc = "hookWrite"
  /\ h' = [ h EXCEPT ![p] =
              Respond500([ h[p] EXCEPT !.hookWriteFailed = TRUE ]) ]
  /\ UNCHANGED << webhookSecret, provider, clubs, stripe_webhooks, now,
                  deliveries, applied, lastApplied, overlapped >>

Next ==
  \/ \E p \in Procs, ctype \in ContentTypes, id \in EventIds,
        payload \in ForgedPayloads : ReceiveUnsigned(p, ctype, id, payload)
  \/ \E p \in Procs, id \in EventIds, payload \in Payloads :
       Receive(p, id, payload)
  \/ \E p \in Procs, subscription \in RetrievedSubscriptions :
       RetrieveOk(p, subscription)
  \/ \E p \in Procs : RetrieveFail(p)
  \/ \E p \in Procs : ClubWriteOk(p)
  \/ \E p \in Procs, message \in FirestoreErrors : ClubWriteFail(p, message)
  \/ \E p \in Procs : HookWriteOk(p)
  \/ \E p \in Procs : HookWriteFail(p)

Spec == Init /\ [][Next]_vars

(* ----------------------- period round trip ----------------------------- *)
\* One handler at a time receives customer.subscription.created events of
\* club456, status active, whose period starts at any second of
\* PeriodStarts; every write succeeds.
PeriodStarts == 0 .. MaxPeriodStart
CreatedPayload(T) ==
  [ Payload("customer.subscription.created", "club456", "", "sub_1",
            "active") EXCEPT
      !.current_period_start = T, !.current_period_end = T + PeriodLength ]
RoundTripInit == Init /\ webhookSecret
RoundTripNext ==
  \/ \E id \in EventIds, T \in PeriodStarts :
       Receive("h1", id, CreatedPayload(T))
  \/ ClubWriteOk("h1")
  \/ HookWriteOk("h1")
RoundTripSpec == RoundTripInit /\ [][RoundTripNext]_vars

(* ------------------------------ progress ------------------------------- *)
\* Every call an invocation awaits returns or throws in the end: the
\* promise of stripe.subscriptions.retrieve and of each set() is settled.
\* The events are one per path of the handler: subscription fetched, set()
\* of a record holding undefined, record written from the event, event
\* saved only.
LivePayloads ==
  { Payload("checkout.session.completed", "club456", "subscription",
            "sub_1", ""),
    Payload("checkout.session.completed", "club456", "subscription", "", ""),
    Payload("customer.subscription.updated", "club456", "", "sub_1",
            "active"),
    Payload("invoice.payment_failed", NoClub, "", "sub_1", "") }
Resume(p) ==
  \/ \E subscription \in RetrievedSubscriptions : RetrieveOk(p, subscription)
  \/ RetrieveFail(p)
  \/ ClubWriteOk(p)
  \/ \E message \in FirestoreErrors : ClubWriteFail(p, message)
  \/ HookWriteOk(p)
  \/ HookWriteFail(p)
LiveNext ==
  \/ \E p \in Procs, ctype \in ContentTypes, id \in EventIds,
        payload \in ForgedPayloads : ReceiveUnsigned(p, ctype, id, payload)
  \/ \E p \in Procs, id \in EventIds, payload \in LivePayloads :
       Receive(p, id, payload)
  \/ \E p \in Procs, subscription \in RetrievedSubscriptions :
       RetrieveOk(p, subscription)
  \/ \E p \in Procs : RetrieveFail(p)
  \/ \E p \in Procs : ClubWriteOk(p)
  \/ \E p \in Procs, message \in FirestoreErrors : ClubWriteFail(p, message)
  \/ \E p \in Procs : HookWriteOk(p)
  \/ \E p \in Procs : HookWriteFail(p)
LiveSpec ==
  Init /\ [][LiveNext]_vars /\ \A p \in Procs : WF_vars(Resume(p))

(* ============================== claims ================================= *)
Done(p) == h[p].pc = "done"
Handles(p) == h[p].signed = "valid" /\ webhookSecret

\* C1: delivering the same verified event again causes no further mutation
\* of the club's subscription record: for every event id the record is
\* mutated at most once.
C1_AppliedOnce == \A e \in EventIds : applied[e] <= 1

\* C2: when two subscription events of one club with provider timestamps
\* t1 < t2 are processed one after the other, in whatever order, the record
\* left behind is the one of the event with timestamp t2.
C2_NewestWins ==
  (~overlapped /\ \A p \in Procs : ~InFlight(p)) =>
    \A c \in ClubIds, e \in EventIds :
      ( /\ lastApplied[c] # NoEvent
        /\ provider[lastApplied[c]].type \in SubscriptionTypes
        /\ applied[e] > 0
        /\ provider[e].type \in SubscriptionTypes
        /\ provider[e].clubId = c )
      => Created(e) <= Created(lastApplied[c])

\* C3: a customer.subscription.updated (t=100) and a
\* customer.subscription.deleted (t=200) of one club handled concurrently
\* leave, once both have finished, a record of status cancelled written
\* from the t=200 event.
C3_ConcurrentEndState ==
  \A c \in ClubIds :
    ( /\ overlapped /\ deliveries = 2
      /\ \A p \in Procs : Done(p) /\ h[p].status = 200
      /\ { h[p].event : p \in Procs } = EventIds
      /\ provider["evt_1"].type = "customer.subscription.updated"
      /\ provider["evt_2"].type = "customer.subscription.deleted"
      /\ provider["evt_1"].clubId = c /\ provider["evt_2"].clubId = c )
    => /\ clubs[c].subscription.status = "cancelled"
       /\ lastApplied[c] = "evt_2"

\* C4: a request whose signature does not verify is answered 400 and
\* nothing follows: no dispatch on the event type, no call of the
\* provider, no write of clubs, no write of stripe_webhooks.
C4_BadSignatureRejected ==
  \A p \in Procs :
    (h[p].signed = "invalid" /\ webhookSecret) =>
      /\ Done(p) /\ h[p].status = 400
      /\ ~h[p].verified /\ h[p].event = NoEvent
      /\ h[p].retrieves = 0 /\ h[p].clubWrites = 0 /\ h[p].hookWrites = 0
C4_Witness ==
  \E p \in Procs : h[p].signed = "invalid" /\ h[p].status = 400

\* C5: constructEvent always receives the request body as the raw bytes
\* received: no body parser has parsed it on the way to the route.
C5_RawBodyVerified ==
  \A p \in Procs :
    (h[p].signed # "" /\ webhookSecret) => h[p].body = "raw"

\* the recognized types that need a club id
NeedsClub(type) ==
  type \in RecognizedTypes \ { "invoice.payment_succeeded" }
MissingClub(p) ==
  /\ Handles(p)
  /\ NeedsClub(EventOf(p).type)
  /\ EventOf(p).clubId = NoClub

\* C6 as stated: an event that needs a club id and has none ends without
\* any datastore write.
C6_NoWriteAtAll ==
  \A p \in Procs :
    MissingClub(p) => h[p].clubWrites = 0 /\ h[p].hookWrites = 0
\* C6 amended: an event that needs a club id and has none causes no write
\* of the clubs collection; it is not an error: the event is written to
\* stripe_webhooks and answered 200, or 500 when that write fails.
C6_NoClubNoRecordWrite ==
  \A p \in Procs :
    MissingClub(p) =>
      /\ h[p].clubWrites = 0 /\ h[p].pc # "clubWrite"
      /\ Done(p) =>
           \/ h[p].status = 200 /\ h[p].hookWrites = 1
           \/ h[p].status = 500 /\ h[p].hookWriteFailed
C6_Witness ==
  \E p \in Procs :
    /\ MissingClub(p) /\ Done(p) /\ h[p].status = 200
    /\ EventOf(p).type = "customer.subscription.updated"
    /\ stripe_webhooks[h[p].event] # NoHook

FailedInvoiceNoClub(p) ==
  /\ Handles(p)
  /\ EventOf(p).type = "invoice.payment_failed"
  /\ EventOf(p).subscription # "" /\ EventOf(p).clubId = NoClub

\* C7 as stated: an invoice.payment_failed with a subscription id and no
\* club id is answered 200 and writes no club record.
C7_Always200 ==
  \A p \in Procs :
    (FailedInvoiceNoClub(p) /\ Done(p)) =>
      h[p].status = 200 /\ h[p].clubWrites = 0
\* C7 amended: it is answered 200 unless the write of its stripe_webhooks
\* document fails (then 500), and writes no club record.
C7_200UnlessSaveFails ==
  \A p \in Procs :
    FailedInvoiceNoClub(p) =>
      /\ h[p].clubWrites = 0 /\ h[p].pc \in { "hookWrite", "done" }
      /\ Done(p) =>
           \/ h[p].status = 200 /\ h[p].hookWrites = 1
           \/ h[p].status = 500 /\ h[p].hookWriteFailed
C7_Witness ==
  \E p \in Procs :
    FailedInvoiceNoClub(p) /\ Done(p) /\ h[p].status = 200

Unrecognized(p) ==
  Handles(p) /\ EventOf(p).type \notin RecognizedTypes

\* C8 as stated: an event of an unrecognized type is answered 200, without
\* action descriptor, and writes no club record.
C8_Always200 ==
  \A p \in Procs :
    (Unrecognized(p) /\ Done(p)) =>
      h[p].status = 200 /\ h[p].action = "" /\ h[p].clubWrites = 0
\* C8 amended: it is answered 200 unless the write of its stripe_webhooks
\* document fails (then 500); no action descriptor, no club record write.
C8_200UnlessSaveFails ==
  \A p \in Procs :
    Unrecognized(p) =>
      /\ h[p].clubWrites = 0 /\ h[p].pc \in { "hookWrite", "done" }
      /\ h[p].action = ""
      /\ Done(p) =>
           \/ h[p].status = 200 /\ h[p].hookWrites = 1
           \/ h[p].status = 500 /\ h[p].hookWriteFailed
C8_Witness ==
  \E p \in Procs : Unrecognized(p) /\ Done(p) /\ h[p].status = 200

\* C9: when the write of the club record fails, the handler answers 500.
C9_RecordWriteFailure500 ==
  \A p \in Procs :
    h[p].clubWriteFailed => Done(p) /\ h[p].status = 500
C9_Witness ==
  \E p \in Procs :
    /\ h[p].clubWriteFailed /\ h[p].status = 500
    /\ EventOf(p).type = "customer.subscription.updated"

\* C10: the write of a customer.subscription.deleted event leaves the
\* club's record with status cancelled, and with the subscriptionId and
\* plan it had before.
C10_DeletedCancelled ==
  [][ \A p \in Procs :
        ( /\ h[p].pc = "clubWrite" /\ h'[p].pc = "hookWrite"
          /\ EventOf(p).type = "customer.subscription.deleted" )
        => LET c == h[p].data.clubId
           IN /\ clubs'[c].subscription.status = "cancelled"
              /\ clubs[c].subscription # NoData =>
                   /\ clubs'[c].subscription.subscriptionId =
                        clubs[c].subscription.subscriptionId
                   /\ clubs'[c].subscription.plan =
                        clubs[c].subscription.plan ]_vars

\* the club the provider's subscription sub_1 belongs to
SubscriptionOwner ==
  CHOOSE c \in ClubIds : \A s \in RetrievedSubscriptions : s.clubId = c
\* handler p responds 200 in this step
Responds200(p) ==
  h[p].pc = "hookWrite" /\ h'[p].pc = "done" /\ h'[p].status = 200

\* C11: once a verified invoice.payment_failed event of a subscription
\* that belongs to a club has been processed, the status of the club's
\* subscription record is past_due.
C11_FailedInvoicePastDue ==
  [][ \A p \in Procs :
        ( /\ Responds200(p)
          /\ EventOf(p).type = "invoice.payment_failed"
          /\ EventOf(p).subscription = "sub_1" )
        => clubs'[SubscriptionOwner].subscription.status = "past_due" ]_vars

\* C12: once a verified checkout.session.expired event with a club id has
\* been processed, the status of the club's subscription record is
\* incomplete.
C12_ExpiredIncomplete ==
  [][ \A p \in Procs :
        ( /\ Responds200(p)
          /\ EventOf(p).type = "checkout.session.expired"
          /\ EventOf(p).clubId # NoClub )
        => clubs'[EventOf(p).clubId].subscription.status = "incomplete"
    ]_vars

\* C13: a verified checkout.session.completed event in subscription mode
\* with a club id is processed to the end and the record it writes has
\* status active, whether the session references no subscription or the
\* subscription fetched has another status.
C13_CheckoutActive ==
  [][ \A p \in Procs :
        ( /\ h'[p] # h[p] /\ webhookSecret /\ h'[p].signed = "valid"
          /\ provider'[h'[p].event].type = "checkout.session.completed"
          /\ provider'[h'[p].event].mode = "subscription"
          /\ provider'[h'[p].event].clubId # NoClub )
        => /\ h[p].pc \in { "idle", "done" } => h'[p].pc # "done"
           /\ (h[p].pc = "clubWrite" /\ h'[p].pc = "hookWrite") =>
                clubs'[h[p].data.clubId].subscription.status = "active"
    ]_vars

\* C14: the record written from a customer.subscription.created event of
\* status active and period [T, T + PeriodLength] has status active,
\* currentPeriodStart T and currentPeriodEnd T + PeriodLength, for every
\* second T.
C14_RoundTrip ==
  \A c \in ClubIds :
    lastApplied[c] # NoEvent =>
      LET e == provider[lastApplied[c]]
          rec == clubs[c].subscription
      IN (e.type = "customer.subscription.created" /\ e.status = "active")
         => /\ rec.status = "active"
            /\ rec.currentPeriodStart =
                 [ seconds |-> e.current_period_start, nanoseconds |-> 0 ]
            /\ rec.currentPeriodEnd =
                 [ seconds |-> e.current_period_end, nanoseconds |-> 0 ]

\* C15: the status of every persisted subscription record is one of
\* incomplete, active, past_due, cancelled.
C15_StatusInEnum ==
  \A c \in ClubIds :
    clubs[c].subscription # NoData =>
      clubs[c].subscription.status \in RecordStatuses

\* C16: the updatedAt of a club's record never decreases from one write to
\* the next, however concurrent handlers interleave.
C16_UpdatedAtMonotonic ==
  [][ \A c \in ClubIds :
        clubs[c].updatedAt # NoTimestamp =>
          /\ TsLeq(clubs[c].updatedAt, clubs'[c].updatedAt)
          /\ TsLeq(clubs[c].subscription.updatedAt,
                   clubs'[c].subscription.updatedAt) ]_vars

\* handler p takes this step, for a verified event
StepsFor(p) ==
  h'[p] # h[p] /\ webhookSecret /\ h'[p].signed = "valid"
\* a step of a handler that does nothing to clubs: it goes from the
\* request straight to saving the event, without calling the provider
FrameStep(p) ==
  /\ clubs' = clubs
  /\ h'[p].pc \in { "hookWrite", "done" }
  /\ h'[p].retrieves = 0 /\ h'[p].clubWrites = 0
  /\ ~h'[p].clubWriteFailed

\* C17: no step of the handler of a verified invoice.payment_succeeded
\* event changes a club document: it attempts no write of clubs.
C17_PaymentSucceededFrame ==
  [][ \A p \in Procs :
        ( /\ StepsFor(p)
          /\ provider'[h'[p].event].type = "invoice.payment_succeeded" )
        => FrameStep(p) ]_vars
C17_Witness ==
  \E p \in Procs :
    /\ Handles(p) /\ Done(p) /\ h[p].status = 200
    /\ EventOf(p).type = "invoice.payment_succeeded"
    /\ lastApplied[SubscriptionOwner] # NoEvent
    /\ clubs[SubscriptionOwner].subscription.status = "canceled"

\* C18: no step of the handler of a verified checkout.session.completed
\* event whose mode is not subscription changes a club document, club id
\* in its metadata or not.
C18_OneTimeFrame ==
  [][ \A p \in Procs :
        ( /\ StepsFor(p)
          /\ provider'[h'[p].event].type = "checkout.session.completed"
          /\ provider'[h'[p].event].mode # "subscription" )
        => FrameStep(p) ]_vars
C18_Witness ==
  \E p \in Procs :
    /\ Handles(p) /\ Done(p) /\ h[p].status = 200
    /\ EventOf(p).type = "checkout.session.completed"
    /\ EventOf(p).mode = "payment" /\ EventOf(p).clubId = "club456"
    /\ clubs["club456"].subscription = NoData

\* action_required.type of the transition table
ActionDescriptor(payload) ==
  CASE payload.type = "checkout.session.completed" ->
         IF payload.mode = "subscription" THEN "update_subscription_status"
         ELSE "update_payment_status"
    [] payload.type = "checkout.session.expired" ->
         "update_subscription_status"
    [] payload.type = "customer.subscription.created" ->
         "create_subscription"
    [] payload.type = "customer.subscription.updated" ->
         "update_subscription"
    [] payload.type = "customer.subscription.deleted" ->
         "cancel_subscription"
    [] payload.type = "invoice.payment_succeeded" -> "record_payment"
    [] payload.type = "invoice.payment_failed" ->
         "update_subscription_status"
    [] OTHER -> ""

\* C19: the 200 response to an event carries the action descriptor type of
\* the transition table for the event's type, and none for an unrecognized
\* type.
C19_ActionDescriptor ==
  \A p \in Procs :
    (Handles(p) /\ Done(p) /\ h[p].status = 200) =>
      h[p].action = ActionDescriptor(EventOf(p))

\* a field of a stored record, undefined when the record lacks it
FieldOf(rec, f) == IF f \in DOMAIN rec THEN rec[f] ELSE Undefined

\* C20: the sourceEventId of a club's subscription record is the id of the
\* last event applied to the record.
C20_SourceEventId ==
  \A c \in ClubIds :
    lastApplied[c] # NoEvent =>
      FieldOf(clubs[c].subscription, "sourceEventId") = lastApplied[c]

\* C21: while the webhook secret is not configured, every request is
\* answered 500 "Webhook secret not configured"; constructEvent is not
\* called, the provider is not called, nothing is written to the datastore.
C21_SecretMissing500 ==
  ~webhookSecret =>
    /\ \A p \in Procs :
         h[p].signed # "" =>
           /\ Done(p) /\ h[p].status = 500
           /\ h[p].error = "Webhook secret not configured"
           /\ h[p].body = "" /\ ~h[p].verified /\ h[p].event = NoEvent
           /\ h[p].retrieves = 0 /\ h[p].clubSets = 0
           /\ h[p].clubWrites = 0 /\ h[p].hookWrites = 0
    /\ \A e \in EventIds : stripe_webhooks[e] = NoHook
    /\ \A c \in ClubIds : clubs[c].subscription = NoData
C21_Witness ==
  /\ ~webhookSecret /\ deliveries = 2
  /\ \E p \in Procs : h[p].signed = "valid" /\ h[p].status = 500

\* the events whose case builds a subscription record and writes it
WritesClub(payload) ==
  /\ payload.clubId # NoClub
  /\ \/ payload.type = "checkout.session.completed"
        /\ payload.mode = "subscription"
     \/ payload.type \in SubscriptionTypes

\* C22: of two deliveries of one event id processed concurrently, both
\* answered with success, exactly one has mutated the club's record.
C22_AtomicDuplicateCheck ==
  ( /\ webhookSecret /\ overlapped /\ deliveries = 2
    /\ \A p \in Procs :
         Done(p) /\ h[p].signed = "valid" /\ h[p].status = 200
    /\ h["h1"].event = h["h2"].event
    /\ WritesClub(EventOf("h1")) )
  => h["h1"].clubWrites + h["h2"].clubWrites = 1

C24_BoundedRetry ==
  \A p \in Procs :
    (Handles(p) /\ Done(p) /\ h[p].clubWriteFailed) =>
      /\ h[p].message = "unavailable" => h[p].clubSets = 3
      /\ h[p].message = "permission-denied" => h[p].clubSets = 1

\* the field of a club document that the handler never writes, as the
\* document had it at the start
NameAtStart(c) == IF c = "club456" THEN "Club 456" ELSE ""

\* C25: a club record is written by one set() per invocation, and every
\* field of the club document other than subscription and updatedAt keeps
\* its value through every write.
C25_MergePreservesFields ==
  /\ \A c \in ClubIds : clubs[c].name = NameAtStart(c)
  /\ \A p \in Procs : h[p].clubSets <= 1 /\ h[p].clubWrites <= h[p].clubSets
C25_Witness ==
  /\ clubs["club456"].name = "Club 456"
  /\ clubs["club456"].subscription.status = "canceled"
  /\ applied["evt_1"] + applied["evt_2"] = 2

\* C26: a subscription-mode checkout.session.completed event whose
\* metadata has no club id, and whose referenced subscription belongs to a
\* club, fetches the subscription and updates that club's record.
C26_InheritedClubId ==
  \A p \in Procs :
    ( /\ Handles(p) /\ Done(p) /\ h[p].status = 200
      /\ EventOf(p).type = "checkout.session.completed"
      /\ EventOf(p).mode = "subscription"
      /\ EventOf(p).clubId = NoClub /\ EventOf(p).subscription = "sub_1" )
    => /\ h[p].retrieves = 1 /\ h[p].clubWrites = 1
       /\ lastApplied[SubscriptionOwner] # NoEvent

\* C27: a step of the handler of an event with club id A leaves the
\* document of every other club as it was, and so does every step that is
\* not a step of the handler of a verified event.
C27_OtherClubsUntouched ==
  [][ /\ \A p \in Procs :
           StepsFor(p) =>
             \A c \in ClubIds \ { provider'[h'[p].event].clubId } :
               clubs'[c] = clubs[c]
      /\ (\A p \in Procs : ~StepsFor(p)) => clubs' = clubs ]_vars
C27_Witness ==
  /\ overlapped
  /\ lastApplied["club456"] # NoEvent /\ lastApplied["club789"] # NoEvent
  /\ clubs["club456"].subscription.clubId = "club456"
  /\ clubs["club789"].subscription.clubId = "club789"

\* the four responses of the handler
Responses ==
  { << 500, "Webhook secret not configured" >>,
    << 400, "Webhook signature verification failed" >>,
    << 200, "" >>,
    << 500, "Error processing webhook" >> }

\* C28: provided every awaited call returns or throws in the end, every
\* request is answered in the end; an invocation never sends a second
\* response, and the response is one of the handler's four.
C28_ExactlyOneResponse ==
  /\ \A p \in Procs : (h[p].signed # "") ~> Done(p)
  /\ [](\A p \in Procs :
          h[p].signed # "" =>
            /\ h[p].responses = IF Done(p) THEN 1 ELSE 0
            /\ Done(p) => << h[p].status, h[p].error >> \in Responses)
C28_Witness ==
  /\ \E p \in Procs :
       /\ Done(p) /\ h[p].status = 200
       /\ h[p].retrieves = 1 /\ h[p].clubWrites = 1 /\ h[p].hookWrites = 1
  /\ \E p \in Procs :
       Done(p) /\ h[p].status = 500 /\ h[p].hookWriteFailed

\* C29: when a verified event has been answered 200 its stripe_webhooks
\* document has been written, and, for an event that writes a club record,
\* the record was written before that document: the handler does not start
\* saving the event before the record is written.
C29_WritesBefore200 ==
  \A p \in Procs :
    Handles(p) =>
      /\ (Done(p) /\ h[p].status = 200) =>
           /\ h[p].hookWrites = 1
           /\ stripe_webhooks[h[p].event].event_type = EventOf(p).type
           /\ WritesClub(EventOf(p)) =>
                /\ h[p].clubWrites = 1 /\ applied[h[p].event] >= 1
                /\ clubs[EventOf(p).clubId].subscription # NoData
      /\ (h[p].pc = "hookWrite" /\ WritesClub(EventOf(p))) =>
           h[p].clubWrites = 1
C29_Witness ==
  \E p \in Procs :
    /\ Handles(p) /\ Done(p) /\ h[p].status = 200
    /\ EventOf(p).type = "checkout.session.completed"
    /\ WritesClub(EventOf(p))
    /\ h[p].clubWrites = 1 /\ h[p].hookWrites = 1

\* the clubs collection as it was at the start
ClubsAtStart(c) ==
  [ exists |-> c = "club456", name |-> NameAtStart(c),
    subscription |-> NoData, updatedAt |-> NoTimestamp ]

\* C30: when the lookup of the referenced subscription fails, the
\* invocation answers 500 and has written neither a club record nor the
\* stripe_webhooks document; if it was the only request, the datastore is
\* as it was at the start.
C30_RetrieveFailure500 ==
  \A p \in Procs :
    h[p].retrieveFailed =>
      /\ Done(p) /\ h[p].status = 500
      /\ h[p].error = "Error processing webhook"
      /\ h[p].clubSets = 0 /\ h[p].clubWrites = 0 /\ h[p].hookWrites = 0
      /\ deliveries = 1 =>
           /\ \A c \in ClubIds : clubs[c] = ClubsAtStart(c)
           /\ \A e \in EventIds : stripe_webhooks[e] = NoHook
C30_Witness ==
  \E p \in Procs :
    /\ h[p].retrieveFailed /\ deliveries = 1
    /\ EventOf(p).type = "checkout.session.completed"
    /\ EventOf(p).mode = "subscription" /\ EventOf(p).clubId = "club456"

====
